---- MODULE Spec2Model ----
(***************************************************************************)
(* Model of example.py: the SubsetApi HTTP wrapper, analytics_tool, the    *)
(* args schema bound to the structured tool, and the __main__ session      *)
(* loop.                                                                    *)
(*                                                                          *)
(* Strings whose characters matter (the host, the paths, the slug, the     *)
(* derived link) are sequences of one-character strings, so that           *)
(* str.replace and "+" are computed as Python computes them.  Strings that *)
(* are only compared or passed on (user text, the continue answer, the     *)
(* vocabulary text) are TLA+ strings.                                      *)
(*                                                                          *)
(* The remote services and the language model are the environment: every   *)
(* HTTP call draws its outcome (a transport failure, or a status and a     *)
(* body) from a small set, and the model draws its decisions (call the     *)
(* tool with some input, or answer) from small sets.                       *)
(***************************************************************************)
EXTENDS Integers, Sequences, FiniteSets, TLC

\* ------------------------------------------------------------------ bounds
\* Number of turns (iterations of the while loop) explored.
MaxTurns == 2
\* Number of tool calls the model may make inside one agent.run.
MaxToolCalls == 2

\* ------------------------------------------------------- character strings
HTTP == <<"h", "t", "t", "p">>
HTTPS == <<"h", "t", "t", "p", "s">>
SchemeSep == <<":", "/", "/">>
Colon == <<":">>
Slash == <<"/">>
P3001 == <<"3", "0", "0", "1">>
P3000 == <<"3", "0", "0", "0">>
DataPath == <<"d", "a", "t", "a", "/">>
QueryPath == <<"a", "p", "i", "/", "v", "1", "/", "q", "u", "e", "r", "y">>
RagPath == QueryPath \o <<"/", "r", "a", "g">>

\* Host names of the configured analytics engine.
NameInternal == <<"i", "n", "t", "e", "r", "n", "a", "l">>
NameHttpd == <<"h", "t", "t", "p", "d">>
NameDb3001 == <<"d", "b", "3", "0", "0", "1">>
Names == {NameInternal, NameHttpd, NameDb3001}

\* http://<name>:3001, the form of host the specification writes.
HostOf(name) == HTTP \o SchemeSep \o name \o Colon \o P3001

\* Values of the SUBSET_HOST environment variable: the specification's host,
\* written without a trailing slash, and hosts written with one.
Hosts == {HostOf(NameInternal)} \cup {HostOf(n) \o Slash : n \in Names}

SlugAbc123 == <<"a", "b", "c", "1", "2", "3">>

\* s has t as a suffix / as a contiguous substring.
EndsWith(s, t) == Len(s) >= Len(t) /\ SubSeq(s, Len(s) - Len(t) + 1, Len(s)) = t
Contains(s, t) == \E i \in 1..(Len(s) - Len(t) + 1) : SubSeq(s, i, i + Len(t) - 1) = t

\* Python's str.replace(old, new) for a non-empty old: every non-overlapping
\* occurrence, scanning from the left.
RECURSIVE Replace(_, _, _)
Replace(s, old, new) ==
    IF Len(s) < Len(old) THEN s
    ELSE IF SubSeq(s, 1, Len(old)) = old
         THEN new \o Replace(SubSeq(s, Len(old) + 1, Len(s)), old, new)
         ELSE <<s[1]>> \o Replace(Tail(s), old, new)

\* ------------------------------------------------------------- JSON values
\* A JSON scalar as the code sees it: a string (its characters in s), a
\* number or null.
JStr(s) == [t |-> "str", s |-> s]
JNum == [t |-> "num", s |-> <<>>]
JNull == [t |-> "null", s |-> <<>>]

\* A response body.  shape "invalid" is a body response.json() cannot parse;
\* "array" is valid JSON that is not an object; "object" is a mapping that
\* may hold a slug and may hold a text.
NoBody == [shape |-> "invalid", hasSlug |-> FALSE, slug |-> JNull, hasText |-> FALSE, text |-> ""]
ArrayBody == [NoBody EXCEPT !.shape = "array"]
EmptyObject == [NoBody EXCEPT !.shape = "object"]
SlugBody(v) == [EmptyObject EXCEPT !.hasSlug = TRUE, !.slug = v]
TextBody(txt) == [EmptyObject EXCEPT !.hasText = TRUE, !.text = txt]

\* What one HTTP call can come to: a transport failure (connection, timeout,
\* DNS: requests raises), or a response with a status code and a body.
TransportFailure == [ok |-> FALSE, status_code |-> 0, body |-> NoBody]
Response(status, body) == [ok |-> TRUE, status_code |-> status, body |-> body]

QueryBodies ==
    {NoBody, ArrayBody, EmptyObject, SlugBody(JStr(SlugAbc123)), SlugBody(JNum), SlugBody(JNull)}
QueryOutcomes ==
    {TransportFailure}
    \cup {Response(200, b) : b \in QueryBodies}
    \cup {Response(201, SlugBody(JStr(SlugAbc123))), Response(404, NoBody),
          Response(500, EmptyObject)}

VocabularyText == "signups, users, weekly"
VocabularyOutcomes ==
    {TransportFailure}
    \cup {Response(200, b) : b \in {NoBody, ArrayBody, EmptyObject, TextBody(VocabularyText)}}
    \cup {Response(500, NoBody), Response(500, TextBody(VocabularyText))}

\* ---------------------------------------------------------------- queries
Fields == {"measures", "breakdown_fields", "sorts", "limit", "subset_description"}

Query(m, b, d, s, l) ==
    [measures |-> m, subset_description |-> d, breakdown_fields |-> b, sorts |-> s, limit |-> l]
NoQuery == Query(<<>>, <<>>, "", <<>>, 0)
ScenarioQuery ==
    Query(<<"count">>, <<>>, "users who signed up last week", <<<<"count", "desc">>>>, 10)
Queries ==
    {ScenarioQuery, Query(<<"sum">>, <<"user_details.state">>, "users in a state", <<>>, 0)}

\* What the model hands to the tool: the fields it supplies and their values.
\* Either every field, or all but one.
ToolInputs ==
    {[present |-> Fields, args |-> q] : q \in Queries}
    \cup {[present |-> Fields \ {f}, args |-> ScenarioQuery] : f \in Fields}

UserTexts == {"how many users signed up last week", "users by state"}
ContinueAnswers == {"y", "Y", "yes", "n", ""}
SUBSET_API_KEY == "key"

\* ----------------------------------------------------------- class SubsetApi
\* __init__: the host, the port and the key are stored, and the headers are
\* built from the key.
SubsetApi(host, api_key, port) ==
    [host |-> host, port |-> port, api_key |-> api_key,
     headers |-> [Accept |-> "*/*", Authorization |-> <<"Bearer ", api_key>>]]

NoParams == [q |-> ""]
NoRequest ==
    [method |-> "", url |-> <<>>, headers |-> [Accept |-> "", Authorization |-> <<>>],
     params |-> NoParams, json |-> NoQuery, verify |-> TRUE]

\* Variant: the stored port is put between the host and the path.
SubsetApi_get_with_port(self, path, params) ==
    [method |-> "GET", url |-> self.host \o Colon \o self.port \o path,
     headers |-> self.headers, params |-> params, json |-> NoQuery, verify |-> FALSE]

\* get: one requests.get of host + path, with the query parameters.
SubsetApi_get(self, path, params) ==
    [method |-> "GET", url |-> self.host \o path, headers |-> self.headers,
     params |-> params, json |-> NoQuery, verify |-> FALSE]

\* Variant: the body passed the way get passes its parameters (params=, not
\* json=), so the request carries no JSON body.
SubsetApi_post_as_params(self, path, params) ==
    [method |-> "POST", url |-> self.host \o path, headers |-> self.headers,
     params |-> NoParams, json |-> NoQuery, verify |-> FALSE]

\* post: one requests.post of host + path, with params as the JSON body.
SubsetApi_post(self, path, params) ==
    [method |-> "POST", url |-> self.host \o path, headers |-> self.headers,
     params |-> NoParams, json |-> params, verify |-> FALSE]

\* Variant: the client checks the status (raise_for_status) before returning.
SubsetApi_returns_checked(outcome) ==
    IF outcome.ok /\ outcome.status_code >= 400 THEN TransportFailure ELSE outcome

\* What get and post hand to their caller: "return requests.get(...)" and
\* "return requests.post(...)" pass on what requests gives, the response with
\* whatever status it has, or the exception raised.
SubsetApi_returns(outcome) == outcome

\* ------------------------------------------------------------ analytics_tool
RephraseMessage == "please rephrase your description and try again"

NoValue == [kind |-> "none", error |-> "", payload |-> NoBody]
ErrorValue(msg) == [kind |-> "error", error |-> msg, payload |-> NoBody]
PayloadValue(body) == [kind |-> "payload", error |-> "", payload |-> body]

\* The outcome of one call: the exception raised ("none": it returned), the
\* value returned, the lines printed, the requests issued, and whether
\* response.json() was called.
Raised(exc, reqs, parsed) ==
    [raised |-> exc, value |-> NoValue, printed |-> <<>>, requests |-> reqs, parsed |-> parsed]

\* Variant: the function returns without its print.
Returned_without_print(v, out, reqs, parsed) ==
    [raised |-> "none", value |-> v, printed |-> <<>>, requests |-> reqs, parsed |-> parsed]

Returned(v, out, reqs, parsed) ==
    [raised |-> "none", value |-> v, printed |-> out, requests |-> reqs, parsed |-> parsed]

\* Variant: final["slug"] with no default, so an absent slug is no string.
SlugOf_no_default(final) == final.slug

\* Variant: a slug that is no string is replaced by the default as well.
SlugOf_coerced(final) ==
    IF final.hasSlug /\ final.slug.t = "str" THEN final.slug ELSE JStr(<<>>)

\* final.get("slug", "")
SlugOf(final) == IF final.hasSlug THEN final.slug ELSE JStr(<<>>)

\* Variant: only the port is replaced, the scheme is left as configured.
frontend_url_port_only(host, slug) == Replace(host, P3001, P3000) \o DataPath \o slug

\* str(SUBSET_HOST).replace("3001", "3000").replace("http", "https") + "data/" + slug
frontend_url(host, slug) ==
    Replace(Replace(host, P3001, P3000), HTTP, HTTPS) \o DataPath \o slug

\* Variant: only client and server errors are rejections.
IsRejected_errors_only(status_code) == status_code >= 400

\* The status test of analytics_tool: anything but 200 is a rejection.
IsRejected(status_code) == status_code # 200

\* analytics_tool, for the configured host and the outcome the network gives
\* its POST.
analytics_tool(measures, breakdown_fields, subset_description, sorts, limit, host, outcome) ==
    LET subset_api == SubsetApi(host, SUBSET_API_KEY, P3001)
        body == [measures |-> measures,
                 subset_description |-> subset_description,
                 breakdown_fields |-> breakdown_fields,
                 sorts |-> sorts,
                 limit |-> limit]
        reqs == <<SubsetApi_post(subset_api, QueryPath, body)>>
        response == SubsetApi_returns(outcome)
    IN  IF ~response.ok THEN Raised("ConnectionError", reqs, FALSE)
        ELSE IF IsRejected(response.status_code)
             THEN Returned(ErrorValue(RephraseMessage), <<>>, reqs, FALSE)
        ELSE IF response.body.shape = "invalid" THEN Raised("JSONDecodeError", reqs, TRUE)
        ELSE IF response.body.shape # "object" THEN Raised("AttributeError", reqs, TRUE)
        ELSE LET final == response.body
                 slug == SlugOf(final)
             IN  IF slug.t # "str" THEN Raised("TypeError", reqs, TRUE)
                 ELSE Returned(PayloadValue(final), <<frontend_url(host, slug.s)>>, reqs, TRUE)

\* The default values of the list parameters: objects made once, when the
\* function is defined, and bound to a parameter the caller leaves out.
DefaultArguments == [measures |-> <<>>, breakdown_fields |-> <<>>, sorts |-> <<<<>>, <<>>>>]
NoLists == [measures |-> <<>>, breakdown_fields |-> <<>>, sorts |-> <<>>]

\* The list objects bound to the parameters of one call: the caller's, or the
\* default for a parameter the caller left out.
BoundLists(input, dflt) ==
    [measures |-> IF "measures" \in input.present THEN input.args.measures ELSE dflt.measures,
     breakdown_fields |-> IF "breakdown_fields" \in input.present
                          THEN input.args.breakdown_fields ELSE dflt.breakdown_fields,
     sorts |-> IF "sorts" \in input.present THEN input.args.sorts ELSE dflt.sorts]

\* Variant: the function appends to the measures list it was given.
lists_after_call_appended(lists) == [lists EXCEPT !.measures = Append(@, "count")]

\* The list objects after analytics_tool has run: the function only places
\* them in the body dict; it assigns into none and calls no method of any.
lists_after_call(lists) == lists

\* The default objects after a call that bound the lists `after`: a default is
\* changed only through a parameter it was bound to.
DefaultsAfter(input, dflt, after) ==
    [measures |-> IF "measures" \in input.present THEN dflt.measures ELSE after.measures,
     breakdown_fields |-> IF "breakdown_fields" \in input.present
                          THEN dflt.breakdown_fields ELSE after.breakdown_fields,
     sorts |-> IF "sorts" \in input.present THEN dflt.sorts ELSE after.sorts]

\* ------------------------------------------- analyticsToolSchema and the tool
\* Every field of analyticsToolSchema is required (Field(...), and
\* subset_description has no default either).
RequiredFields == Fields
SchemaAccepts(input) == RequiredFields \subseteq input.present

\* Variant: every exception of the function is turned into the observation.
HandlesToolError_any(exc) == TRUE

\* handle_tool_error=True turns a ToolException raised by the function into
\* the observation; any other exception is raised on to the caller of run.
HandlesToolError(exc) == exc = "ToolException"

\* One run of subset_analytics_tool on the model's input: the schema parses
\* the input first, then analytics_tool is called with the parsed fields.
subset_analytics_tool(input, host, outcome) ==
    IF ~SchemaAccepts(input) THEN Raised("ValidationError", <<>>, FALSE)
    ELSE LET a == input.args
             r == analytics_tool(a.measures, a.breakdown_fields, a.subset_description,
                                 a.sorts, a.limit, host, outcome)
         IN  IF r.raised # "none" /\ HandlesToolError(r.raised)
             THEN Returned(ErrorValue("Tool execution error"), r.printed, r.requests, r.parsed)
             ELSE r

\* ------------------------------------------------------- the session loop
VARIABLES
    SUBSET_HOST,     \* the configured host (environment), fixed for the process
    pc,              \* where the loop stands
    turn,            \* iterations of the while loop started
    \* the program's variables
    user_satisfied,  \* the loop's flag
    user_prompt,     \* the text read at the top of the iteration
    rag,             \* the vocabulary constraint of the last fetch
    prompt,          \* the system prompt built from it
    exception,       \* the uncaught exception that ended the process, or "none"
    defaults,        \* the default list objects of analytics_tool
    \* what the current turn has done so far (cleared when a turn begins)
    tool_calls,      \* tool calls made by the model
    observation,     \* the last tool result handed back to the model
    sent,            \* the last request issued
    received,        \* the outcome of the last request
    num_get,         \* GETs issued
    num_post,        \* POSTs issued
    printed,         \* the last link printed by analytics_tool
    num_links,       \* links printed
    num_answers,     \* final answers printed
    tool_input,      \* the last input the model gave the tool
    parsed,          \* whether the last tool call called response.json()
    args_after,      \* the lists the last tool call was given, as it left them
    continue_answer  \* the answer given to the continue prompt

vars ==
    <<SUBSET_HOST, pc, turn, user_satisfied, user_prompt, rag, prompt, tool_calls,
      observation, exception, sent, received, num_get, num_post, printed, num_links,
      num_answers, tool_input, parsed, continue_answer, defaults, args_after>>

PromptPrefix ==
    "in tools, you may only use verbs, adjectives and measures in the following list:"
\* Variant: the prompt is built without the fetched list.
SystemPrompt_without_list(r) == <<PromptPrefix, "">>

\* The f-string of lines 130-133: the fixed sentence followed by rag.
SystemPrompt(r) == <<PromptPrefix, r>>

NoInput == [present |-> {}, args |-> NoQuery]
NoOutcome == [ok |-> FALSE, status_code |-> -1, body |-> NoBody]

\* Variant: the fetch wrapped in a handler that falls back to no vocabulary.
rag_of_degrading(outcome) ==
    IF outcome.ok /\ outcome.body.shape = "object" /\ outcome.body.hasText
    THEN [raised |-> "none", rag |-> outcome.body.text]
    ELSE [raised |-> "none", rag |-> ""]

\* Variant: a vocabulary fetched in an earlier turn is kept and used again.
rag_of_cached(outcome) ==
    IF rag # "" THEN [raised |-> "none", rag |-> rag]
    ELSE IF ~outcome.ok THEN [raised |-> "ConnectionError", rag |-> ""]
    ELSE IF outcome.body.shape = "invalid" THEN [raised |-> "JSONDecodeError", rag |-> ""]
    ELSE IF outcome.body.shape # "object" THEN [raised |-> "AttributeError", rag |-> ""]
    ELSE [raised |-> "none", rag |-> IF outcome.body.hasText THEN outcome.body.text ELSE ""]

\* response.json().get("text", "") on the outcome of the vocabulary GET.
rag_of(outcome) ==
    IF ~outcome.ok THEN [raised |-> "ConnectionError", rag |-> ""]
    ELSE IF outcome.body.shape = "invalid" THEN [raised |-> "JSONDecodeError", rag |-> ""]
    ELSE IF outcome.body.shape # "object" THEN [raised |-> "AttributeError", rag |-> ""]
    ELSE [raised |-> "none", rag |-> IF outcome.body.hasText THEN outcome.body.text ELSE ""]

\* input(...) == "y"
answer_satisfies(answer) == answer = "y"

\* while not user_satisfied
loop_continues(satisfied) == ~satisfied

Init ==
    /\ SUBSET_HOST \in Hosts
    /\ pc = "AwaitingInput"
    /\ turn = 0
    /\ user_satisfied = FALSE
    /\ user_prompt = ""
    /\ rag = ""
    /\ prompt = SystemPrompt("")
    /\ tool_calls = 0
    /\ observation = NoValue
    /\ exception = "none"
    /\ sent = NoRequest
    /\ received = NoOutcome
    /\ num_get = 0
    /\ num_post = 0
    /\ printed = <<>>
    /\ num_links = 0
    /\ num_answers = 0
    /\ tool_input = NoInput
    /\ parsed = FALSE
    /\ defaults = DefaultArguments
    /\ args_after = NoLists
    /\ continue_answer = ""

\* user_prompt = input("What would you like to know? "): a turn begins.
ReadInput(text) ==
    /\ pc = "AwaitingInput"
    /\ turn < MaxTurns
    /\ turn' = turn + 1
    /\ user_prompt' = text
    /\ pc' = "FetchingVocabulary"
    /\ tool_calls' = 0
    /\ observation' = NoValue
    /\ sent' = NoRequest
    /\ received' = NoOutcome
    /\ num_get' = 0
    /\ num_post' = 0
    /\ printed' = <<>>
    /\ num_links' = 0
    /\ num_answers' = 0
    /\ tool_input' = NoInput
    /\ parsed' = FALSE
    /\ args_after' = NoLists
    /\ continue_answer' = ""
    /\ UNCHANGED <<SUBSET_HOST, user_satisfied, rag, prompt, exception, defaults>>

\* Variant: the agent is run before the vocabulary is fetched.
FetchVocabulary_skipped(outcome) ==
    /\ pc = "FetchingVocabulary"
    /\ pc' = "Reasoning"
    /\ UNCHANGED <<SUBSET_HOST, turn, user_satisfied, user_prompt, rag, prompt, exception,
                   tool_calls, observation, sent, received, num_get, num_post, printed,
                   num_links, num_answers, tool_input, parsed, continue_answer, defaults,
                   args_after>>

\* api.get("api/v1/query/rag", ...), response.json().get("text", ""), the
\* prompt, and the construction of the agent; agent.run starts.
FetchVocabulary(outcome) ==
    /\ pc = "FetchingVocabulary"
    /\ LET api == SubsetApi(SUBSET_HOST, SUBSET_API_KEY, P3001)
           v == rag_of(SubsetApi_returns(outcome))
       IN  /\ sent' = SubsetApi_get(api, RagPath, [q |-> user_prompt])
           /\ num_get' = num_get + 1
           /\ received' = outcome
           /\ IF v.raised # "none"
              THEN /\ pc' = "Aborted"
                   /\ exception' = v.raised
                   /\ UNCHANGED <<rag, prompt>>
              ELSE /\ rag' = v.rag
                   /\ prompt' = SystemPrompt(v.rag)
                   /\ pc' = "Reasoning"
                   /\ UNCHANGED exception
    /\ UNCHANGED <<SUBSET_HOST, turn, user_satisfied, user_prompt, tool_calls, observation,
                   num_post, printed, num_links, num_answers, tool_input, parsed,
                   continue_answer, defaults, args_after>>

\* Inside agent.run: the model calls subset_analytics_tool with an input, and
\* the result is handed back to it.
ToolCall(input, outcome) ==
    /\ pc = "Reasoning"
    /\ tool_calls < MaxToolCalls
    /\ LET r == subset_analytics_tool(input, SUBSET_HOST, outcome)
           n == Len(r.requests)
           after == lists_after_call(BoundLists(input, defaults))
       IN  /\ tool_input' = input
           /\ args_after' = IF SchemaAccepts(input) THEN after ELSE args_after
           /\ defaults' = IF SchemaAccepts(input) THEN DefaultsAfter(input, defaults, after)
                          ELSE defaults
           /\ parsed' = r.parsed
           /\ tool_calls' = tool_calls + 1
           /\ num_post' = num_post + n
           /\ sent' = IF n > 0 THEN r.requests[n] ELSE sent
           /\ received' = IF n > 0 THEN outcome ELSE received
           /\ num_links' = num_links + Len(r.printed)
           /\ printed' = IF Len(r.printed) > 0 THEN r.printed[Len(r.printed)] ELSE printed
           /\ IF r.raised # "none"
              THEN /\ pc' = "Aborted"
                   /\ exception' = r.raised
                   /\ UNCHANGED observation
              ELSE /\ observation' = r.value
                   /\ UNCHANGED <<pc, exception>>
    /\ UNCHANGED <<SUBSET_HOST, turn, user_satisfied, user_prompt, rag, prompt, num_get,
                   num_answers, continue_answer>>

\* agent.run returns the model's final answer; print(response).
FinalAnswer ==
    /\ pc = "Reasoning"
    /\ num_answers' = num_answers + 1
    /\ pc' = "AwaitingContinue"
    /\ UNCHANGED <<SUBSET_HOST, turn, user_satisfied, user_prompt, rag, prompt, tool_calls,
                   observation, exception, sent, received, num_get, num_post, printed,
                   num_links, tool_input, parsed, continue_answer, defaults, args_after>>

\* user_satisfied = input("would you like to ask another question? (y/n) ") == "y",
\* and the test of the while loop.
Continue(answer) ==
    /\ pc = "AwaitingContinue"
    /\ continue_answer' = answer
    /\ user_satisfied' = answer_satisfies(answer)
    /\ pc' = IF loop_continues(answer_satisfies(answer)) THEN "AwaitingInput" ELSE "Terminal"
    /\ UNCHANGED <<SUBSET_HOST, turn, user_prompt, rag, prompt, tool_calls, observation,
                   exception, sent, received, num_get, num_post, printed, num_links,
                   num_answers, tool_input, parsed, defaults, args_after>>

Next ==
    \/ \E text \in UserTexts : ReadInput(text)
    \/ \E outcome \in VocabularyOutcomes : FetchVocabulary(outcome)
    \/ \E input \in ToolInputs, outcome \in QueryOutcomes : ToolCall(input, outcome)
    \/ FinalAnswer
    \/ \E answer \in ContinueAnswers : Continue(answer)

Spec == Init /\ [][Next]_vars

\* ================================================================= claims

\* The step in which the model calls the tool, and the step in which that
\* call reaches analytics_tool (the schema accepted the input).
ToolCallStep == pc = "Reasoning" /\ tool_calls' = tool_calls + 1
ExecutedStep == ToolCallStep /\ SchemaAccepts(tool_input')

\* The last tool call returned a success payload, so printed is its link and
\* received is its response.
LinkEmitted == exception = "none" /\ observation.kind = "payload" /\ num_links > 0

\* C1: once the continue prompt has been answered, the loop is back at
\* AwaitingInput if and only if the answer was exactly "y", and the session
\* has ended for every other answer.
C1_RepromptsIffY ==
    /\ (pc = "AwaitingInput" /\ num_answers > 0 => continue_answer = "y")
    /\ (pc = "Terminal" => continue_answer # "y")

\* What the vocabulary GET of the running turn came to, while no tool call
\* has overwritten received.
VocabularyReceived == num_get = 1 /\ tool_calls = 0
FetchFailed(outcome) == ~outcome.ok \/ outcome.body.shape = "invalid"

\* C2 (as stated): after a transport failure or an unparseable response of
\* the vocabulary GET nothing is raised, and the turn goes on with an empty
\* vocabulary constraint.
C2_FetchFailureDegrades ==
    VocabularyReceived /\ FetchFailed(received)
        => /\ exception = "none"
           /\ pc \in {"Reasoning", "AwaitingContinue", "AwaitingInput", "Terminal"}
           /\ rag = ""

\* C2 (amended): a transport failure or an unparseable response of the
\* vocabulary GET is raised out of the loop: the process ends there, before
\* the model is invoked and before any answer or continue prompt.  The turn
\* goes on with an empty constraint only when the response parses to an
\* object that has no text.
C2_FetchFailureAborts ==
    /\ VocabularyReceived /\ FetchFailed(received)
           => /\ pc = "Aborted"
              /\ exception = (IF received.ok THEN "JSONDecodeError" ELSE "ConnectionError")
              /\ num_answers = 0
              /\ continue_answer = ""
    /\ VocabularyReceived /\ received.ok /\ received.body.shape = "object"
         /\ ~received.body.hasText
           => /\ exception = "none"
              /\ pc # "Aborted"
              /\ rag = ""
              /\ prompt = SystemPrompt("")

C2_Witness ==
    /\ pc = "Aborted"
    /\ VocabularyReceived
    /\ ~received.ok
    /\ exception = "ConnectionError"

\* The link the specification gives for host http://<name>:3001 and a slug.
ExpectedLink(name, slug) ==
    HTTPS \o SchemeSep \o name \o Colon \o P3000 \o Slash \o DataPath \o slug

\* C3 (as stated): with host http://<name>:3001 and a 200 response whose
\* slug is s, the link emitted is https://<name>:3000/data/<s>.
C3_LinkForHost ==
    \A name \in Names :
        SUBSET_HOST = HostOf(name) /\ LinkEmitted
            => printed = ExpectedLink(name, SlugOf(observation.payload).s)

\* C3 (amended): the link is https://<name>:3000/data/<s> when the host is
\* configured with its trailing slash, http://<name>:3001/, and <name>
\* contains neither "http" nor "3001"; for the host written without the
\* slash the link is https://<name>:3000data/<s>.
C3_LinkForHostWithSlash ==
    \A name \in Names :
        LinkEmitted /\ ~Contains(name, HTTP) /\ ~Contains(name, P3001)
            => /\ SUBSET_HOST = HostOf(name) \o Slash
                   => printed = ExpectedLink(name, SlugOf(observation.payload).s)
               /\ SUBSET_HOST = HostOf(name)
                   => printed = HTTPS \o SchemeSep \o name \o Colon \o P3000 \o DataPath
                                    \o SlugOf(observation.payload).s

C3_Witness ==
    /\ SUBSET_HOST = HostOf(NameInternal) \o Slash
    /\ LinkEmitted
    /\ received = Response(200, SlugBody(JStr(SlugAbc123)))
    /\ printed = ExpectedLink(NameInternal, SlugAbc123)

\* The last tool call of the turn reached analytics_tool, so sent, received
\* and parsed are those of its POST.
LastCallExecuted == tool_calls > 0 /\ SchemaAccepts(tool_input)

\* C4: a tool call whose POST is answered with a status other than 200
\* returns exactly the rephrase marker and does nothing more: the body is not
\* parsed, no link is derived or printed, nothing is raised, and the POST is
\* the only request of the call.
C4_RejectionReturnsMarker ==
    [][ExecutedStep /\ received'.ok /\ received'.status_code # 200
          => /\ observation' = ErrorValue(RephraseMessage)
             /\ exception' = "none"
             /\ pc' = "Reasoning"
             /\ ~parsed'
             /\ num_links' = num_links
             /\ printed' = printed
             /\ num_post' = num_post + 1
             /\ num_get' = num_get]_vars

C4_Witness ==
    /\ LastCallExecuted
    /\ received = Response(201, SlugBody(JStr(SlugAbc123)))
    /\ observation = ErrorValue(RephraseMessage)
    /\ num_links = 0

\* C5: a tool call that reaches analytics_tool issues exactly one request, a
\* POST of host + "api/v1/query", whose JSON body has exactly the five
\* fields, each with the value the call was given.
C5_OnePostWithFiveFields ==
    [][ExecutedStep
          => /\ num_post' = num_post + 1
             /\ num_get' = num_get
             /\ sent'.method = "POST"
             /\ sent'.url = SUBSET_HOST \o QueryPath
             /\ DOMAIN sent'.json = Fields
             /\ \A f \in Fields : sent'.json[f] = tool_input'.args[f]]_vars

C5_Witness ==
    /\ tool_calls = 1
    /\ num_post = 1
    /\ sent.method = "POST"
    /\ sent.json = ScenarioQuery
    /\ sent.json.limit > 0

\* C6: a tool call that reached analytics_tool and failed there never ends
\* the process: the turn is still running or has gone on to the answer.
C6_ToolFailureNeverTerminates ==
    LastCallExecuted => pc # "Aborted" /\ exception = "none"

\* C7: a tool input that lacks a required field causes no POST, and the
\* rejection comes back to the model as an error result; the turn goes on.
C7_MissingFieldReported ==
    tool_calls > 0 /\ ~SchemaAccepts(tool_input)
        => /\ tool_calls = 1 => num_post = 0
           /\ pc # "Aborted"
           /\ exception = "none"
           /\ observation.kind = "error"

\* A 200 response whose body is an object without a slug.
NoSlugSuccess(outcome) ==
    /\ outcome.ok
    /\ outcome.status_code = 200
    /\ outcome.body.shape = "object"
    /\ ~outcome.body.hasSlug

\* C8 (as stated): when the 200 body has no slug nothing is raised, the link
\* printed ends in "/data/", and the parsed body is the value returned.
C8_NoSlugLinkEndsInSlashData ==
    LastCallExecuted /\ NoSlugSuccess(received)
        => /\ exception = "none"
           /\ observation = PayloadValue(received.body)
           /\ EndsWith(printed, Slash \o DataPath)

\* C8 (amended): when the 200 body has no slug nothing is raised, the parsed
\* body is the value returned, and the link printed is the converted host
\* followed by "data/" and an empty slug: it ends in "data/", and in "/data/"
\* exactly when the configured host ends in "/".
C8_NoSlugLinkEndsInData ==
    LastCallExecuted /\ NoSlugSuccess(received)
        => /\ exception = "none"
           /\ observation = PayloadValue(received.body)
           /\ num_links > 0
           /\ EndsWith(printed, DataPath)
           /\ Len(printed) > Len(SUBSET_HOST)
           /\ EndsWith(printed, Slash \o DataPath) <=> EndsWith(SUBSET_HOST, Slash)

C8_Witness ==
    /\ LastCallExecuted
    /\ received = Response(200, EmptyObject)
    /\ observation = PayloadValue(EmptyObject)
    /\ EndsWith(SUBSET_HOST, Slash)
    /\ EndsWith(printed, Slash \o DataPath)

\* C9: the steps of a turn come in order.  The model is invoked only after
\* the turn's vocabulary GET has completed and the prompt is built from it; a
\* tool result is with the model only after its POST completed; the answer is
\* printed before the continue prompt; and the loop ends (Terminal) only on
\* the answer to the continue prompt.
C9_StepOrder ==
    [][pc' # pc
          => \/ pc = "AwaitingInput" /\ pc' = "FetchingVocabulary"
             \/ pc = "FetchingVocabulary" /\ pc' \in {"Reasoning", "Aborted"}
             \/ pc = "Reasoning" /\ pc' \in {"AwaitingContinue", "Aborted"}
             \/ pc = "AwaitingContinue" /\ pc' \in {"AwaitingInput", "Terminal"}]_vars

C9_TurnOrder ==
    /\ [](pc \in {"Reasoning", "AwaitingContinue", "Terminal"}
             => num_get = 1 /\ prompt = SystemPrompt(rag))
    /\ [](tool_calls > 0 => num_get = 1)
    /\ [](observation.kind # "none" => num_post > 0 /\ tool_calls > 0)
    /\ [](pc \in {"AwaitingContinue", "Terminal"} => num_answers = 1)
    /\ [](pc = "Reasoning" => num_answers = 0 /\ continue_answer = "")
    /\ C9_StepOrder

C9_Witness ==
    /\ pc = "Terminal"
    /\ turn = 2
    /\ num_get = 1
    /\ observation.kind = "payload"
    /\ num_answers = 1

\* C10: a transport failure of the POST is not caught: the call returns
\* nothing (no error marker reaches the model, no link is printed), the
\* exception ends the process, and the process stays ended without an answer
\* or a continue prompt.
C10_TransportErrorPropagates ==
    /\ [][ExecutedStep /\ ~received'.ok
             => /\ pc' = "Aborted"
                /\ exception' = "ConnectionError"
                /\ observation' = observation
                /\ num_links' = num_links]_vars
    /\ [][pc = "Aborted" => pc' = "Aborted"]_vars
    /\ [](pc = "Aborted" => num_answers = 0 /\ continue_answer = "")

C10_Witness ==
    /\ pc = "Aborted"
    /\ LastCallExecuted
    /\ ~received.ok
    /\ exception = "ConnectionError"
    /\ num_answers = 0

\* A 200 response, and one whose body analytics_tool can use: an object whose
\* slug is absent or a string.
Is200(outcome) == outcome.ok /\ outcome.status_code = 200
UsableBody(body) == body.shape = "object" /\ (body.hasSlug => body.slug.t = "str")

\* C11 (as stated): one invocation issues exactly one request, prints exactly
\* one link if and only if the status is 200, and on status 200 returns the
\* parsed body.
C11_OneCallOneLinkIff200 ==
    [][ExecutedStep
          => /\ num_post' = num_post + 1
             /\ num_get' = num_get
             /\ num_links' = (IF Is200(received') THEN num_links + 1 ELSE num_links)
             /\ Is200(received') => observation' = PayloadValue(received'.body)]_vars

\* C11 (amended): one invocation issues exactly one request, the POST.  It
\* prints exactly one link if and only if the status is 200 and the body
\* parses to an object whose slug is absent or a string, and it then returns
\* the parsed body unchanged; for any other 200 body it raises, having printed
\* and returned nothing.
C11_OneCallOneLinkIffUsable200 ==
    [][ExecutedStep
          => /\ num_post' = num_post + 1
             /\ num_get' = num_get
             /\ sent'.method = "POST"
             /\ num_links'
                  = (IF Is200(received') /\ UsableBody(received'.body)
                     THEN num_links + 1 ELSE num_links)
             /\ Is200(received') /\ UsableBody(received'.body)
                  => /\ observation' = PayloadValue(received'.body)
                     /\ printed' = frontend_url(SUBSET_HOST, SlugOf(received'.body).s)
                     /\ exception' = "none"
             /\ Is200(received') /\ ~UsableBody(received'.body)
                  => /\ pc' = "Aborted"
                     /\ observation' = observation
                     /\ printed' = printed]_vars

C11_Witness ==
    /\ LastCallExecuted
    /\ tool_calls = 2
    /\ num_post = 2
    /\ num_links = 1
    /\ received = Response(200, SlugBody(JStr(SlugAbc123)))
    /\ observation = PayloadValue(SlugBody(JStr(SlugAbc123)))

\* The step that performs the vocabulary GET of a turn.
FetchStep == pc = "FetchingVocabulary" /\ pc' # pc

\* C12: nothing of an earlier turn reaches a later one.  Every turn starts
\* with the flag false and a cleared trace, issues its own GET with the text
\* read in that turn, and builds its vocabulary constraint and prompt from
\* that GET's response alone; every tool result is decided by that call's
\* response alone.
C12_TurnIsSelfContained ==
    /\ [][pc = "AwaitingInput" /\ pc' # pc
             => /\ ~user_satisfied /\ ~user_satisfied'
                /\ num_get' = 0 /\ num_post' = 0]_vars
    /\ [][FetchStep
             => /\ num_get' = 1
                /\ sent'.method = "GET"
                /\ sent'.params = [q |-> user_prompt]
                /\ pc' = "Reasoning"
                     => /\ rag' = (IF received'.body.hasText THEN received'.body.text ELSE "")
                        /\ prompt' = <<PromptPrefix, rag'>>]_vars
    /\ [][ExecutedStep /\ exception' = "none"
             => observation' = (IF Is200(received') THEN PayloadValue(received'.body)
                                ELSE ErrorValue(RephraseMessage))]_vars

C12_Witness ==
    /\ turn = 2
    /\ pc = "Reasoning"
    /\ tool_calls = 0
    /\ num_get = 1
    /\ sent.params = [q |-> "users by state"]
    /\ received = Response(200, EmptyObject)
    /\ rag = ""

\* C13: once the vocabulary GET of a turn has returned a JSON object, the
\* constraint is the value of its text field, the empty string when it has
\* none, and the system prompt is the fixed sentence followed by exactly that
\* constraint.
C13_ConstraintIsTextField ==
    VocabularyReceived /\ received.ok /\ received.body.shape = "object"
        => /\ exception = "none"
           /\ received.body.hasText => rag = received.body.text
           /\ ~received.body.hasText => rag = ""
           /\ Len(prompt) = 2
           /\ prompt[1] = PromptPrefix
           /\ prompt[2] = rag

C13_Witness ==
    /\ pc = "Reasoning"
    /\ VocabularyReceived
    /\ received = Response(200, TextBody(VocabularyText))
    /\ rag = VocabularyText
    /\ prompt[2] = VocabularyText

\* C14: a call of get or post issues exactly one request and hands the
\* response to its caller whatever the status: a vocabulary response with
\* status 500 is read like one with status 200, and a rejected POST reaches
\* analytics_tool as a response, which makes the marker of it, not as an
\* exception.
C14_OneRequestRawResponse ==
    /\ [][FetchStep
             => /\ num_get' = num_get + 1
                /\ num_post' = num_post
                /\ received'.ok /\ received'.body.shape = "object"
                     => /\ pc' = "Reasoning"
                        /\ exception' = "none"
                        /\ received'.body.hasText => rag' = received'.body.text]_vars
    /\ [][ExecutedStep
             => /\ num_post' = num_post + 1
                /\ num_get' = num_get
                /\ received'.ok /\ ~Is200(received')
                     => /\ exception' = "none"
                        /\ pc' = "Reasoning"
                        /\ observation'.kind = "error"]_vars

C14_Witness ==
    /\ pc = "Reasoning"
    /\ VocabularyReceived
    /\ received = Response(500, TextBody(VocabularyText))
    /\ rag = VocabularyText
    /\ exception = "none"

\* A 200 response whose body is valid JSON.
ValidJson200(outcome) == Is200(outcome) /\ outcome.body.shape # "invalid"

\* C15 (as stated): for every 200 response whose body is valid JSON, of any
\* shape and with a slug of any type, the call raises nothing and returns the
\* parsed body.
C15_AnyJsonBodyReturned ==
    LastCallExecuted /\ ValidJson200(received)
        => /\ exception = "none"
           /\ observation = PayloadValue(received.body)

\* C15 (amended): for a 200 response whose body is valid JSON the call
\* returns the parsed body without raising exactly when the body is an object
\* whose slug is absent or a string.  A body that is not an object raises
\* (no get attribute), and an object whose slug is a number or null raises
\* (a string cannot be concatenated with it); both end the process.
C15_ObjectWithStringSlugReturned ==
    LastCallExecuted /\ ValidJson200(received)
        => /\ UsableBody(received.body)
               => /\ exception = "none"
                  /\ observation = PayloadValue(received.body)
           /\ received.body.shape # "object"
               => /\ pc = "Aborted"
                  /\ exception = "AttributeError"
           /\ received.body.shape = "object" /\ ~UsableBody(received.body)
               => /\ pc = "Aborted"
                  /\ exception = "TypeError"

C15_Witness ==
    /\ pc = "Aborted"
    /\ LastCallExecuted
    /\ received = Response(200, SlugBody(JNull))
    /\ exception = "TypeError"
    /\ parsed

\* The list arguments of an input, as the caller gave them.
GivenLists(input) ==
    [measures |-> input.args.measures,
     breakdown_fields |-> input.args.breakdown_fields,
     sorts |-> input.args.sorts]

Ports == {<<>>, P3000, P3001}

\* C17: every request goes to the configured host followed directly by the
\* path, with the Accept and Authorization headers made from the key; the
\* port given to the constructor is stored and changes neither the URL nor
\* the headers nor anything else of a request.
C17_UrlIsHostPlusPath ==
    /\ sent # NoRequest
         => /\ sent.method \in {"GET", "POST"}
            /\ sent.url = SUBSET_HOST \o (IF sent.method = "GET" THEN RagPath ELSE QueryPath)
            /\ sent.headers = [Accept |-> "*/*", Authorization |-> <<"Bearer ", SUBSET_API_KEY>>]
    /\ \A port \in Ports :
         LET api == SubsetApi(SUBSET_HOST, SUBSET_API_KEY, port)
             other == SubsetApi(SUBSET_HOST, SUBSET_API_KEY, P3001)
         IN  /\ api.port = port
             /\ api.headers = other.headers
             /\ SubsetApi_get(api, RagPath, [q |-> user_prompt])
                  = SubsetApi_get(other, RagPath, [q |-> user_prompt])
             /\ SubsetApi_post(api, QueryPath, tool_input.args)
                  = SubsetApi_post(other, QueryPath, tool_input.args)

C17_Witness ==
    /\ SUBSET_HOST = HostOf(NameInternal) \o Slash
    /\ num_get = 1
    /\ sent.method = "GET"
    /\ sent.url = HostOf(NameInternal) \o Slash \o RagPath
    /\ sent.params = [q |-> user_prompt]

====
